---- MODULE Spec2Model ----
(***************************************************************************)
(* The two notebooks of src/wine_mdl.ipynb as state machines over the      *)
(* kernel's global names.                                                  *)
(*                                                                         *)
(*   wine notebook     load -> split -> scale -> five classifiers ->       *)
(*                     model_comparison (sorted by accuracy)               *)
(*   diabetes notebook load -> three t-tests -> confidence interval ->     *)
(*                     one-way ANOVA -> simple linear regression           *)
(*                                                                         *)
(* A cell that raises stops the run: no later cell executes.               *)
(* Numbers are exact: a float is kept as a fraction num/den, a ratio as a  *)
(* percentage, a p-value in thousandths.                                   *)
(***************************************************************************)
EXTENDS Integers, Sequences, FiniteSets, TLC

VARIABLES
    notebook,          \* "wine" or "diabetes": the notebook being executed
    schedule,          \* how the cells of the panel are scheduled
    pc,                \* per cell, the number of its statements already executed
    raised,            \* "none", or the exception that stopped the run
    test_size,         \* train_test_split(test_size=...), in percent
    random_state,      \* train_test_split(random_state=...)
    previous,          \* the partition made by the previous execution of the notebook
    df,                \* the loaded DataFrame
    X, y,              \* features / target
    X_train, X_test, y_train, y_test,
    scaler,            \* the StandardScaler object
    clf,               \* log_reg, dtree, rf, svm, knn: the classifier objects
    y_pred,            \* y_pred_<classifier>
    accuracy,          \* accuracy_<classifier>
    model_comparison,  \* the report frame
    t_stat, p_value,   \* assigned by each of the three t-test cells
    ttest_result,      \* per t-test cell, what its scipy.stats call returned
    median_target, group1, group2,
    ci,                \* the confidence interval
    model,             \* assigned by the ANOVA cell and by the regression cell
    anova_table,
    printed            \* per cell of the diabetes notebook, what it printed

ctlVars   == <<notebook, schedule, test_size, random_state, previous>>
dataVars  == <<df, X, y>>
splitVars == <<X_train, X_test, y_train, y_test>>
clsVars   == <<scaler, clf, y_pred, accuracy, model_comparison>>
ttestVars == <<t_stat, p_value, ttest_result, median_target, group1, group2>>
fitVars   == <<ci, model, anova_table>>
vars == <<pc, raised, ctlVars, dataVars, splitVars, clsVars, ttestVars, fitVars,
          printed>>

-----------------------------------------------------------------------------
(* Bounds of the model *)

MaxRows == 7

\* rows of the dataset on which the schedules of the panel are compared
PanelRows == 6

(* Program constants *)

n_neighbors == 5

-----------------------------------------------------------------------------
(* Values *)

Undefined == [kind |-> "undefined"]

Float(n, d) == [kind |-> "float", num |-> n, den |-> d]

NaN == [kind |-> "nan"]

\* a < b and a <= b on floats; every comparison with NaN is false
Lt(a, b) == a.kind = "float" /\ b.kind = "float" /\ a.num * b.den < b.num * a.den

Leq(a, b) == a.kind = "float" /\ b.kind = "float" /\ a.num * b.den <= b.num * a.den

DataFrame(cols, idx, rws) ==
    [kind |-> "DataFrame", columns |-> cols, index |-> idx, rows |-> rws]

Series(idx, vals) == [kind |-> "Series", index |-> idx, values |-> vals]

NdArray(cols, rws) == [kind |-> "ndarray", columns |-> cols, rows |-> rws]

Range(s) == {s[i] : i \in DOMAIN s}

RECURSIVE SumOver(_, _)
SumOver(S, f) ==
    IF S = {} THEN 0
    ELSE LET e == CHOOSE e \in S : TRUE IN f[e] + SumOver(S \ {e}, f)

-----------------------------------------------------------------------------
(* Input datasets: n rows whose columns follow small patterns of the row    *)
(* label, so that constant, two-valued and all-distinct columns occur.      *)

Pat(p, i) ==
    CASE p = "const"     -> 1
      [] p = "alt"       -> i % 2
      [] p = "ramp"      -> i
      [] p = "skew"      -> IF i = 0 THEN 1 ELSE 0
      [] p = "one_class" -> 0

FeaturePatterns == {<<"const", "ramp">>, <<"alt", "const">>, <<"ramp", "alt">>}
TargetPatterns == {"one_class", "alt", "skew"}
WineFeatures == {"alcohol", "malic_acid"}
TestSizes == {-20, 0, 10, 20, 100, 120}
RandomStates == {7, 42}

load_wine(n, fp, tp) ==
    DataFrame(WineFeatures \cup {"target"},
              [i \in 1..n |-> i - 1],
              [i \in 1..n |-> [c \in WineFeatures \cup {"target"} |->
                  CASE c = "alcohol"    -> Pat(fp[1], i - 1)
                    [] c = "malic_acid" -> Pat(fp[2], i - 1)
                    [] c = "target"     -> Pat(tp, i - 1)]])

-----------------------------------------------------------------------------
(* pandas: df.drop(col, axis=1), df[col], positional take *)

drop(frame, col) ==
    DataFrame(frame.columns \ {col}, frame.index,
              [i \in DOMAIN frame.rows |->
                  [c \in frame.columns \ {col} |-> frame.rows[i][c]]])

getitem(frame, col) ==
    Series(frame.index, [i \in DOMAIN frame.rows |-> frame.rows[i][col]])

take_frame(frame, ind) ==
    DataFrame(frame.columns,
              [k \in DOMAIN ind |-> frame.index[ind[k] + 1]],
              [k \in DOMAIN ind |-> frame.rows[ind[k] + 1]])

take_series(s, ind) ==
    Series([k \in DOMAIN ind |-> s.index[ind[k] + 1]],
           [k \in DOMAIN ind |-> s.values[ind[k] + 1]])

-----------------------------------------------------------------------------
(* sklearn.model_selection.train_test_split(X, y, test_size, random_state) *)

\* The seeded generator: a Fisher-Yates shuffle of 0..n-1 driven by a
\* congruential generator whose state starts at the seed.
RECURSIVE shuffle(_, _, _)
shuffle(perm, i, s) ==
    IF i <= 1 THEN perm
    ELSE LET s2 == (s * 5 + 3) % 16
             j  == (s2 % i) + 1
         IN shuffle([perm EXCEPT ![i] = perm[j], ![j] = perm[i]], i - 1, s2)

permutation(n, seed) == shuffle([k \in 1..n |-> k - 1], n, seed % 16)

\* A generator that ignores the seed (random_state=None): it starts from
\* fresh entropy on each call.
rng_permutation_unseeded(n, seed) == {permutation(n, s) : s \in 0..15}

\* check_random_state(random_state).permutation(n): what one call can return.
rng_permutation(n, seed) == {permutation(n, seed)}

\* The range check with the interval's end points let through.
invalid_test_size_closed(ts) == ts < 0 \/ ts > 100

\* A float test_size is valid only inside the open interval (0, 1).
invalid_test_size(ts) == ts <= 0 \/ ts >= 100

\* n_test = ceil(test_size * n_samples)
n_test_of(n_samples, ts) == (ts * n_samples + 99) \div 100

\* The training slice taken one place early, so that it shares a row with
\* the test slice.
ind_train_overlapping(perm, n_test, n_train) ==
    [k \in 1..n_train |-> perm[n_test + k - 1]]

\* ind_test = permutation[:n_test]
ind_test_of(perm, n_test) == [k \in 1..n_test |-> perm[k]]

\* ind_train = permutation[n_test : n_test + n_train]
ind_train_of(perm, n_test, n_train) == [k \in 1..n_train |-> perm[n_test + k]]

\* the same indices are applied to every array passed in
train_test_split(Xf, ys, ts, perm) ==
    LET n_samples == Len(Xf.rows)
        n_test    == n_test_of(n_samples, ts)
        n_train   == n_samples - n_test
    IN  IF invalid_test_size(ts) \/ n_train = 0
        THEN [raised |-> "ValueError"]
        ELSE LET train == ind_train_of(perm, n_test, n_train)
                 test  == ind_test_of(perm, n_test)
             IN [raised  |-> "none",
                 X_train |-> take_frame(Xf, train),
                 X_test  |-> take_frame(Xf, test),
                 y_train |-> take_series(ys, train),
                 y_test  |-> take_series(ys, test)]

-----------------------------------------------------------------------------
(* sklearn.preprocessing.StandardScaler *)

StandardScaler == [kind |-> "StandardScaler", fitted |-> FALSE]

column_sum(rws, c) == SumOver(DOMAIN rws, [i \in DOMAIN rws |-> rws[i][c]])

column_sumsq(rws, c) ==
    SumOver(DOMAIN rws, [i \in DOMAIN rws |-> rws[i][c] * rws[i][c]])

\* n^2 * variance of column c
var_num(rws, c) ==
    Len(rws) * column_sumsq(rws, c) - column_sum(rws, c) * column_sum(rws, c)

\* The scale without the guard for a constant column: sqrt(var_) = 0.
scale_sq_unguarded(rws, c) == Float(var_num(rws, c), Len(rws) * Len(rws))

\* scale_ = _handle_zeros_in_scale(sqrt(var_)): a constant column scales by 1
scale_sq(rws, c) ==
    IF var_num(rws, c) = 0 THEN Float(1, 1)
    ELSE Float(var_num(rws, c), Len(rws) * Len(rws))

fit(frame) ==
    [kind            |-> "StandardScaler",
     fitted          |-> TRUE,
     n_samples_seen_ |-> Len(frame.rows),
     mean_     |-> [c \in frame.columns |->
                      Float(column_sum(frame.rows, c), Len(frame.rows))],
     var_      |-> [c \in frame.columns |->
                      Float(var_num(frame.rows, c),
                            Len(frame.rows) * Len(frame.rows))],
     scale_sq_ |-> [c \in frame.columns |-> scale_sq(frame.rows, c)]]

\* (x - mean_) / scale_, kept as the centred fraction and the squared scale
transform(sc, frame) ==
    NdArray(frame.columns,
            [i \in DOMAIN frame.rows |-> [c \in frame.columns |->
                [num      |-> frame.rows[i][c] * sc.mean_[c].den - sc.mean_[c].num,
                 den      |-> sc.mean_[c].den,
                 scale_sq |-> sc.scale_sq_[c]]]])

\* The evaluation subset scaled with fit_transform: the scaler is fitted again,
\* on the evaluation rows.
scale_test_refitting(sc, frame) ==
    [scaler |-> fit(frame), X_test |-> transform(fit(frame), frame)]

\* scaler.transform(X_test): the fitted scaler is applied and left as it is
scale_test(sc, frame) == [scaler |-> sc, X_test |-> transform(sc, frame)]

-----------------------------------------------------------------------------
(* The classifier panel *)

Panel == <<[name |-> "Logistic Regression", var |-> "log_reg"],
           [name |-> "Decision Tree",       var |-> "dtree"],
           [name |-> "Random Forest",       var |-> "rf"],
           [name |-> "SVM",                 var |-> "svm"],
           [name |-> "KNN",                 var |-> "knn"]>>

Classifiers == {Panel[k].var : k \in DOMAIN Panel}

\* LogisticRegression.fit and SVC.fit need at least two classes in y_train
fit_raises(c, ytr) ==
    c \in {"log_reg", "svm"} /\ Cardinality(Range(ytr.values)) < 2

\* KNeighborsClassifier.predict needs n_neighbors <= n_samples_fit
predict_raises(c, fitted) == c = "knn" /\ n_neighbors > fitted.n_samples_fit_

\* A fitted classifier maps each row of X_test to one label of classes_ (the
\* labels seen in y_train): the decisions a fit can lead to.
fit_outcomes(c, Xtr, ytr, Xte) ==
    {[kind           |-> c,
      classes_       |-> Range(ytr.values),
      n_samples_fit_ |-> Len(Xtr.rows),
      decision       |-> d] : d \in [DOMAIN Xte.rows -> Range(ytr.values)]}

predict(fitted, Xte) ==
    [kind |-> "ndarray", values |-> [i \in DOMAIN Xte.rows |-> fitted.decision[i]]]

\* Every classifier cell assigning its predictions to one and the same name.
pred_name_shared(c) == "log_reg"

\* the name a classifier cell gives its predictions: y_pred_<c>
pred_name(c) == c

\* The score taken as the share of rows whose prediction differs.
accuracy_score_errors(y_true, pred) ==
    Float(Cardinality({i \in DOMAIN pred.values : pred.values[i] # y_true.values[i]}),
          Len(pred.values))

\* accuracy_score(y_true, y_pred) = mean(y_true == y_pred)
accuracy_score(y_true, pred) ==
    Float(Cardinality({i \in DOMAIN pred.values : pred.values[i] = y_true.values[i]}),
          Len(pred.values))

-----------------------------------------------------------------------------
(* pandas: pd.DataFrame({...}) and DataFrame.sort_values *)

\* the arrangements of the row positions in S
RECURSIVE Orderings(_)
Orderings(S) ==
    IF S = {} THEN {<<>>}
    ELSE UNION {{<<e>> \o p : p \in Orderings(S \ {e})} : e \in S}

\* The values of the sorted column put in order alone, the other column and
\* the index left as they were.
reorder_accuracy_only(frame, p) ==
    DataFrame(frame.columns,
              [k \in DOMAIN p |-> frame.index[k]],
              [k \in DOMAIN p |->
                  [frame.rows[k] EXCEPT !.Accuracy = frame.rows[p[k]].Accuracy]])

\* the rows of frame taken in the order p, each row whole and with its label
reorder(frame, p) ==
    DataFrame(frame.columns,
              [k \in DOMAIN p |-> frame.index[p[k]]],
              [k \in DOMAIN p |-> frame.rows[p[k]]])

\* The sort with the direction flag dropped: ascending order.
sort_values_ascending(frame, by) ==
    {reorder(frame, p) : p \in
        {q \in Orderings(DOMAIN frame.rows) :
            \A i, j \in DOMAIN q :
                i < j => Leq(frame.rows[q[i]][by], frame.rows[q[j]][by])}}

\* sort_values(by=..., ascending=False) with the default kind='quicksort',
\* which is not a stable sort: each descending arrangement of the rows is a
\* possible result.
sort_values(frame, by) ==
    {reorder(frame, p) : p \in
        {q \in Orderings(DOMAIN frame.rows) :
            \A i, j \in DOMAIN q :
                i < j => Leq(frame.rows[q[j]][by], frame.rows[q[i]][by])}}

\* pd.DataFrame({'Model': [...], 'Accuracy': [...]})
comparison_frame(acc) ==
    DataFrame({"Model", "Accuracy"},
              [k \in DOMAIN Panel |-> k - 1],
              [k \in DOMAIN Panel |->
                  [Model |-> Panel[k].name, Accuracy |-> acc[Panel[k].var]]])

-----------------------------------------------------------------------------
(* The diabetes notebook's library calls *)

DiabetesColumns == {"bmi", "bp", "s1", "target"}
BmiPatterns == {"const", "alt", "ramp"}
DiabetesTargetPatterns == {"alt", "ramp"}

load_diabetes(n, bp, tp) ==
    DataFrame(DiabetesColumns,
              [i \in 1..n |-> i - 1],
              [i \in 1..n |-> [c \in DiabetesColumns |->
                  CASE c = "bmi"    -> Pat(bp, i - 1)
                    [] c = "bp"     -> Pat("alt", i - 1)
                    [] c = "s1"     -> Pat("skew", i - 1)
                    [] c = "target" -> Pat(tp, i - 1)]])

\* What a scipy.stats t-test can return: (statistic, pvalue), the p-value
\* below, at and above 0.05, and NaN (a sample without variance).
TTestOutcomes ==
    {[statistic |-> Float(-198, 100), pvalue |-> Float(49, 1000)],
     [statistic |-> Float(-197, 100), pvalue |-> Float(50, 1000)],
     [statistic |-> Float(196, 100),  pvalue |-> Float(51, 1000)],
     [statistic |-> NaN,              pvalue |-> NaN]}

TTests == {"one_sample", "two_sample", "paired"}

\* the literal 0.05 of the three verdict tests
alpha == Float(5, 100)

\* The verdict with the two branches exchanged.
verdict_of_exchanged(p) == IF Lt(p, alpha) THEN "fail to reject" ELSE "reject"

\* The verdict with the comparison written <=.
verdict_of_leq(p) == IF Leq(p, alpha) THEN "reject" ELSE "fail to reject"

\* if p_value < 0.05: print("Reject ...") else: print("Fail to reject ...")
verdict_of(p) == IF Lt(p, alpha) THEN "reject" ELSE "fail to reject"

RECURSIVE insert_sorted(_, _)
insert_sorted(v, s) ==
    IF s = <<>> THEN <<v>>
    ELSE IF v <= Head(s) THEN <<v>> \o s
    ELSE <<Head(s)>> \o insert_sorted(v, Tail(s))

RECURSIVE sort_ints(_)
sort_ints(s) == IF s = <<>> THEN <<>> ELSE insert_sorted(Head(s), sort_ints(Tail(s)))

\* Series.median(): the middle value, or the mean of the two middle values
median(s) ==
    LET v == sort_ints(s.values)
        n == Len(v)
    IN  IF n = 0 THEN NaN
        ELSE IF n % 2 = 1 THEN Float(2 * v[(n + 1) \div 2], 2)
        ELSE Float(v[n \div 2] + v[n \div 2 + 1], 2)

\* df[mask][col]
select(frame, mask, col) ==
    LET keep == SelectSeq([i \in DOMAIN frame.rows |-> i], LAMBDA i : mask[i])
    IN  Series([k \in DOMAIN keep |-> frame.index[keep[k]]],
               [k \in DOMAIN keep |-> frame.rows[keep[k]][col]])

\* Four times the k-th quartile edge of the sorted values v (linear
\* interpolation between the two neighbouring order statistics).
edge4(v, k) ==
    LET pos == (Len(v) - 1) * k
        lo  == pos \div 4
        r   == pos % 4
    IN  IF r = 0 THEN 4 * v[lo + 1]
        ELSE 4 * v[lo + 1] + r * (v[lo + 2] - v[lo + 1])

\* pd.qcut(s, q=4, labels=["Q1", "Q2", "Q3", "Q4"]): ValueError when the bin
\* edges are not unique; a value lies in the bin whose right edge is the first
\* edge not below it, the lowest value in Q1.
qcut(s) ==
    LET v     == sort_ints(s.values)
        edges == [k \in 0..4 |-> edge4(v, k)]
        bin(x) == LET below == Cardinality({k \in 0..4 : edges[k] < 4 * x})
                  IN  IF below = 0 THEN 1 ELSE below
        label == [b \in 1..4 |-> <<"Q1", "Q2", "Q3", "Q4">>[b]]
    IN  IF Len(v) = 0 \/ \E k \in 0..3 : edges[k] >= edges[k + 1]
        THEN [raised |-> "ValueError"]
        ELSE [raised |-> "none",
              values |-> [i \in DOMAIN s.values |-> label[bin(s.values[i])]]]

\* The bins assigned, as their numbers, over the column they were computed
\* from (binning in place).
setitem_over_bmi(frame, col, vals) ==
    LET code(l) == CHOOSE k \in 1..4 : <<"Q1", "Q2", "Q3", "Q4">>[k] = l
    IN  DataFrame(frame.columns, frame.index,
                  [i \in DOMAIN frame.rows |->
                      [c \in frame.columns |->
                          IF c = "bmi" THEN code(vals[i]) ELSE frame.rows[i][c]]])

\* df[col] = values: the frame gains the column
setitem(frame, col, vals) ==
    DataFrame(frame.columns \cup {col}, frame.index,
              [i \in DOMAIN frame.rows |->
                  [c \in frame.columns \cup {col} |->
                      IF c = col THEN vals[i] ELSE frame.rows[i][c]]])

\* sm.add_constant(X): a frame with the column const before the series
add_constant(s) ==
    DataFrame({"const", "bmi"}, s.index,
              [i \in DOMAIN s.values |-> [const |-> 1, bmi |-> s.values[i]]])

\* ols(formula, data).fit() / sm.OLS(endog, exog).fit(): the fitted results
\* object, named by what it regresses on what
OLSResults(endog, exog) == [kind |-> "OLSResults", endog |-> endog, exog |-> exog]

-----------------------------------------------------------------------------
(* Cells and their scheduling *)

WineCells == <<"split", "scale", "log_reg", "dtree", "rf", "svm", "knn", "compare">>
DiabetesCells == <<"one_sample", "two_sample", "paired", "ci", "anova", "regression">>

Cells(nb) == IF nb = "wine" THEN WineCells ELSE DiabetesCells

\* the cells that make up the panel of procedures
PanelCells(nb) == IF nb = "wine" THEN Classifiers ELSE Range(DiabetesCells)

\* the number of statements of a cell
NSteps(cell) ==
    CASE cell \in {"split", "compare", "ci"}       -> 1
      [] cell \in TTests                            -> 2
      [] cell \in {"scale", "anova", "regression"} -> 3
      [] cell \in Classifiers                       -> 3

Done(cell) == cell \in DOMAIN pc /\ pc[cell] = NSteps(cell)

\* the global names a cell of a panel assigns (df: the ANOVA cell assigns
\* into the frame)
Writes(cell) ==
    CASE cell \in {"one_sample", "paired"} -> {"t_stat", "p_value"}
      [] cell = "two_sample" ->
             {"median_target", "group1", "group2", "t_stat", "p_value"}
      [] cell = "ci"         -> {"confidence_level", "mean", "std_err", "ci"}
      [] cell = "anova"      -> {"df", "model", "anova_table"}
      [] cell = "regression" -> {"X", "y", "model"}
      [] cell = "log_reg"    -> {"log_reg", "y_pred_log_reg", "accuracy_log_reg"}
      [] cell = "dtree"      -> {"dtree", "y_pred_dtree", "accuracy_dtree"}
      [] cell = "rf"         -> {"rf", "y_pred_rf", "accuracy_rf"}
      [] cell = "svm"        -> {"svm", "y_pred_svm", "accuracy_svm"}
      [] cell = "knn"        -> {"knn", "y_pred_knn", "accuracy_knn"}

\* the global names a cell of a panel reads
Reads(cell) ==
    IF cell \in Classifiers
    THEN Writes(cell) \cup {"X_train", "y_train", "X_test", "y_test"}
    ELSE (Writes(cell) \ {"df"}) \cup {"df"}

Started(cell) == cell \in DOMAIN pc /\ pc[cell] > 0

\* the cells that must have completed before `cell` starts:
\*   "notebook"     the cells run top to bottom;
\*   "any_order"    the procedures of the panel run one at a time, in any order;
\*   "interleaved"  the statements of the procedures of the panel interleave.
\* Under every schedule the panel starts after the cells above it. A cell
\* below the panel waits for the whole panel only when the notebook runs top
\* to bottom: otherwise nothing but the names it reads holds it back.
MustPrecede(cell) ==
    LET order   == Cells(notebook)
        at      == CHOOSE i \in DOMAIN order : order[i] = cell
        earlier == {order[j] : j \in 1..(at - 1)}
    IN  IF schedule = "notebook"
        THEN earlier
        ELSE earlier \ PanelCells(notebook)

CanStep(cell, k) ==
    /\ raised = "none"
    /\ cell \in DOMAIN pc
    /\ pc[cell] = k
    /\ \A b \in MustPrecede(cell) : Done(b)
    /\ \/ schedule = "interleaved"
       \/ \A other \in DOMAIN pc \ {cell} : pc[other] \in {0, NSteps(other)}

Advance(cell) ==
    /\ pc' = [pc EXCEPT ![cell] = @ + 1]
    /\ raised' = raised

\* a global name is bound once a cell has assigned it; reading an unbound
\* name raises NameError
bound(v) == v # Undefined

\* an exception that no cell catches: the run stops
Raise(e) ==
    /\ raised' = e
    /\ pc' = pc

-----------------------------------------------------------------------------
(* The wine notebook *)

\* X = df.drop('target', axis=1); y = df['target'];
\* X_train, X_test, y_train, y_test = train_test_split(X, y, test_size, random_state)
SplitCell ==
    /\ CanStep("split", 0)
    /\ X' = drop(df, "target")
    /\ y' = getitem(df, "target")
    /\ df' = df
    /\ \E perm \in rng_permutation(Len(df.rows), random_state) :
         LET r == train_test_split(X', y', test_size, perm)
         IN  IF r.raised # "none"
             THEN /\ Raise(r.raised)
                  /\ UNCHANGED splitVars
             ELSE /\ X_train' = r.X_train /\ X_test' = r.X_test
                  /\ y_train' = r.y_train /\ y_test' = r.y_test
                  /\ Advance("split")
    /\ UNCHANGED <<ctlVars, clsVars, ttestVars, fitVars, printed>>

\* scaler = StandardScaler()
ScalerInit ==
    /\ CanStep("scale", 0)
    /\ scaler' = StandardScaler
    /\ Advance("scale")
    /\ UNCHANGED <<ctlVars, dataVars, splitVars, clf, y_pred, accuracy,
                   model_comparison, ttestVars, fitVars, printed>>

\* X_train = scaler.fit_transform(X_train)
FitTransformTrain ==
    /\ CanStep("scale", 1)
    /\ scaler' = fit(X_train)
    /\ X_train' = transform(scaler', X_train)
    /\ Advance("scale")
    /\ UNCHANGED <<ctlVars, dataVars, X_test, y_train, y_test, clf, y_pred,
                   accuracy, model_comparison, ttestVars, fitVars, printed>>

\* X_test = scaler.transform(X_test)
TransformTest ==
    /\ CanStep("scale", 2)
    /\ LET r == scale_test(scaler, X_test)
       IN  /\ scaler' = r.scaler
           /\ X_test' = r.X_test
    /\ Advance("scale")
    /\ UNCHANGED <<ctlVars, dataVars, X_train, y_train, y_test, clf, y_pred,
                   accuracy, model_comparison, ttestVars, fitVars, printed>>

\* <c> = <Classifier>(...); <c>.fit(X_train, y_train)
FitClassifier(c) ==
    /\ CanStep(c, 0)
    /\ IF fit_raises(c, y_train)
       THEN /\ Raise("ValueError")
            /\ clf' = clf
       ELSE /\ clf' \in {[clf EXCEPT ![c] = f] :
                            f \in fit_outcomes(c, X_train, y_train, X_test)}
            /\ Advance(c)
    /\ UNCHANGED <<ctlVars, dataVars, splitVars, scaler, y_pred, accuracy,
                   model_comparison, ttestVars, fitVars, printed>>

\* y_pred_<c> = <c>.predict(X_test)
PredictClassifier(c) ==
    /\ CanStep(c, 1)
    /\ IF predict_raises(c, clf[c])
       THEN /\ Raise("ValueError")
            /\ y_pred' = y_pred
       ELSE /\ y_pred' = [y_pred EXCEPT ![pred_name(c)] = predict(clf[c], X_test)]
            /\ Advance(c)
    /\ UNCHANGED <<ctlVars, dataVars, splitVars, scaler, clf, accuracy,
                   model_comparison, ttestVars, fitVars, printed>>

\* accuracy_<c> = accuracy_score(y_test, y_pred_<c>)
ScoreClassifier(c) ==
    /\ CanStep(c, 2)
    /\ accuracy' = [accuracy EXCEPT ![c] =
                       accuracy_score(y_test, y_pred[pred_name(c)])]
    /\ Advance(c)
    /\ UNCHANGED <<ctlVars, dataVars, splitVars, scaler, clf, y_pred,
                   model_comparison, ttestVars, fitVars, printed>>

\* model_comparison = pd.DataFrame({...});
\* model_comparison = model_comparison.sort_values(by='Accuracy', ascending=False)
\* (a name of the 'Accuracy' list that no cell has assigned: NameError)
CompareCell ==
    /\ CanStep("compare", 0)
    /\ IF \E k \in DOMAIN Panel : ~bound(accuracy[Panel[k].var])
       THEN /\ Raise("NameError")
            /\ model_comparison' = model_comparison
       ELSE /\ model_comparison' \in
                   sort_values(comparison_frame(accuracy), "Accuracy")
            /\ Advance("compare")
    /\ UNCHANGED <<ctlVars, dataVars, splitVars, scaler, clf, y_pred, accuracy,
                   ttestVars, fitVars, printed>>

-----------------------------------------------------------------------------
(* The diabetes notebook *)

\* t_stat, p_value = stats.ttest_1samp(...) / ttest_ind(...) / ttest_rel(...);
\* the two-sample cell first splits bmi at the median of target
TTestCall(t) ==
    /\ CanStep(t, 0)
    /\ \E r \in TTestOutcomes :
           /\ t_stat' = r.statistic
           /\ p_value' = r.pvalue
           /\ ttest_result' = [ttest_result EXCEPT ![t] = r]
    /\ IF t = "two_sample"
       THEN LET target == getitem(df, "target")
                m      == median(target)
            IN  /\ median_target' = m
                /\ group1' = select(df, [i \in DOMAIN df.rows |->
                                 Leq(Float(target.values[i], 1), m)], "bmi")
                /\ group2' = select(df, [i \in DOMAIN df.rows |->
                                 Lt(m, Float(target.values[i], 1))], "bmi")
       ELSE UNCHANGED <<median_target, group1, group2>>
    /\ Advance(t)
    /\ UNCHANGED <<ctlVars, dataVars, splitVars, clsVars, fitVars, printed>>

\* print(f"t-statistic: {t_stat}, p-value: {p_value}"); if p_value < 0.05: ...
TTestVerdict(t) ==
    /\ CanStep(t, 1)
    /\ printed' = [printed EXCEPT ![t] =
                      [kind |-> "output", t_stat |-> t_stat, p_value |-> p_value,
                       verdict |-> verdict_of(p_value)]]
    /\ Advance(t)
    /\ UNCHANGED <<ctlVars, dataVars, splitVars, clsVars, ttestVars, fitVars>>

\* mean = df['bmi'].mean(); std_err = stats.sem(df['bmi']);
\* ci = stats.t.interval(0.95, len(df['bmi'])-1, loc=mean, scale=std_err)
ConfidenceInterval ==
    /\ CanStep("ci", 0)
    /\ LET bmi == getitem(df, "bmi")
           centre == IF Len(bmi.values) = 0 THEN NaN
                     ELSE Float(SumOver(DOMAIN bmi.values, bmi.values),
                                Len(bmi.values))
       IN  /\ ci' = [kind |-> "interval", loc |-> centre]
           /\ printed' = [printed EXCEPT !["ci"] =
                             [kind |-> "output", ci |-> ci']]
    /\ Advance("ci")
    /\ UNCHANGED <<ctlVars, dataVars, splitVars, clsVars, ttestVars, model,
                   anova_table>>

\* df['bmi_quartile'] = pd.qcut(df['bmi'], q=4, labels=[...])
AnovaQuartiles ==
    /\ CanStep("anova", 0)
    /\ LET q == qcut(getitem(df, "bmi"))
       IN  IF q.raised # "none"
           THEN /\ Raise(q.raised)
                /\ df' = df
           ELSE /\ df' = setitem(df, "bmi_quartile", q.values)
                /\ Advance("anova")
    /\ UNCHANGED <<ctlVars, X, y, splitVars, clsVars, ttestVars, fitVars, printed>>

\* model = ols('target ~ C(bmi_quartile)', data=df).fit()
AnovaFit ==
    /\ CanStep("anova", 1)
    /\ model' = OLSResults("target", {"C(bmi_quartile)"})
    /\ Advance("anova")
    /\ UNCHANGED <<ctlVars, dataVars, splitVars, clsVars, ttestVars, ci,
                   anova_table, printed>>

\* anova_table = sm.stats.anova_lm(model, typ=2); print(anova_table)
AnovaTable ==
    /\ CanStep("anova", 2)
    /\ anova_table' = [kind |-> "anova_lm", model |-> model]
    /\ printed' = [printed EXCEPT !["anova"] =
                      [kind |-> "output", table |-> anova_table']]
    /\ Advance("anova")
    /\ UNCHANGED <<ctlVars, dataVars, splitVars, clsVars, ttestVars, ci, model>>

\* X = df['bmi']; y = df['target']; X = sm.add_constant(X)
RegressionDesign ==
    /\ CanStep("regression", 0)
    /\ X' = add_constant(getitem(df, "bmi"))
    /\ y' = getitem(df, "target")
    /\ df' = df
    /\ Advance("regression")
    /\ UNCHANGED <<ctlVars, splitVars, clsVars, ttestVars, fitVars, printed>>

\* model = sm.OLS(y, X).fit()
RegressionFit ==
    /\ CanStep("regression", 1)
    /\ model' = OLSResults("target", X.columns)
    /\ Advance("regression")
    /\ UNCHANGED <<ctlVars, dataVars, splitVars, clsVars, ttestVars, ci,
                   anova_table, printed>>

\* print(model.summary())
RegressionSummary ==
    /\ CanStep("regression", 2)
    /\ printed' = [printed EXCEPT !["regression"] =
                      [kind |-> "output", summary |-> model]]
    /\ Advance("regression")
    /\ UNCHANGED <<ctlVars, dataVars, splitVars, clsVars, ttestVars, fitVars>>

-----------------------------------------------------------------------------
(* Executions *)

\* The kernel's names with every accuracy_<classifier> assigned 0.0 up front.
Fresh_prebound(nb) ==
    /\ pc = [c \in Range(Cells(nb)) |-> 0]
    /\ raised = "none"
    /\ X = Undefined /\ y = Undefined
    /\ X_train = Undefined /\ X_test = Undefined
    /\ y_train = Undefined /\ y_test = Undefined
    /\ scaler = Undefined
    /\ clf = [c \in Classifiers |-> Undefined]
    /\ y_pred = [c \in Classifiers |-> Undefined]
    /\ accuracy = [c \in Classifiers |-> Float(0, 1)]
    /\ model_comparison = Undefined
    /\ t_stat = Undefined /\ p_value = Undefined
    /\ ttest_result = [t \in TTests |-> Undefined]
    /\ median_target = Undefined /\ group1 = Undefined /\ group2 = Undefined
    /\ ci = Undefined /\ model = Undefined /\ anova_table = Undefined
    /\ printed = [c \in Range(DiabetesCells) |-> Undefined]

\* the kernel's names before the first cell below the load cell runs
Fresh(nb) ==
    /\ pc = [c \in Range(Cells(nb)) |-> 0]
    /\ raised = "none"
    /\ X = Undefined /\ y = Undefined
    /\ X_train = Undefined /\ X_test = Undefined
    /\ y_train = Undefined /\ y_test = Undefined
    /\ scaler = Undefined
    /\ clf = [c \in Classifiers |-> Undefined]
    /\ y_pred = [c \in Classifiers |-> Undefined]
    /\ accuracy = [c \in Classifiers |-> Undefined]
    /\ model_comparison = Undefined
    /\ t_stat = Undefined /\ p_value = Undefined
    /\ ttest_result = [t \in TTests |-> Undefined]
    /\ median_target = Undefined /\ group1 = Undefined /\ group2 = Undefined
    /\ ci = Undefined /\ model = Undefined /\ anova_table = Undefined
    /\ printed = [c \in Range(DiabetesCells) |-> Undefined]

\* the state after the load cell of the wine notebook
InitWine(schedules, sizes, fps, tps, ratios, seeds) ==
    /\ notebook = "wine"
    /\ schedule \in schedules
    /\ test_size \in ratios
    /\ random_state \in seeds
    /\ previous = Undefined
    /\ \E n \in sizes, fp \in fps, tp \in tps : df = load_wine(n, fp, tp)
    /\ Fresh("wine")

\* the state after the load cell of the diabetes notebook
InitDiabetes(schedules, sizes, bps, tps) ==
    /\ notebook = "diabetes"
    /\ schedule \in schedules
    /\ test_size = 20
    /\ random_state = 42
    /\ previous = Undefined
    /\ \E n \in sizes, bp \in bps, tp \in tps : df = load_diabetes(n, bp, tp)
    /\ Fresh("diabetes")

WineNext ==
    \/ SplitCell
    \/ ScalerInit
    \/ FitTransformTrain
    \/ TransformTest
    \/ \E c \in Classifiers : FitClassifier(c)
    \/ \E c \in Classifiers : PredictClassifier(c)
    \/ \E c \in Classifiers : ScoreClassifier(c)
    \/ CompareCell

DiabetesNext ==
    \/ \E t \in TTests : TTestCall(t)
    \/ \E t \in TTests : TTestVerdict(t)
    \/ ConfidenceInterval
    \/ AnovaQuartiles
    \/ AnovaFit
    \/ AnovaTable
    \/ RegressionDesign
    \/ RegressionFit
    \/ RegressionSummary

Next == WineNext \/ DiabetesNext

\* Either notebook, its cells run top to bottom.
Init ==
    \/ InitWine({"notebook"}, 0..MaxRows, FeaturePatterns, TargetPatterns,
                TestSizes, RandomStates)
    \/ InitDiabetes({"notebook"}, 0..MaxRows, BmiPatterns, DiabetesTargetPatterns)

Spec == Init /\ [][Next]_vars

\* The wine notebook executed a second time from the same inputs: the kernel
\* starts afresh and load_wine returns the same packaged data.
Rerun ==
    /\ notebook = "wine" /\ previous = Undefined
    /\ Done("split") \/ (raised # "none" /\ pc["split"] = 0)
    /\ previous' = [kind |-> "partition", raised |-> raised,
                    X_train |-> X_train, X_test |-> X_test,
                    y_train |-> y_train, y_test |-> y_test]
    /\ pc' = [c \in DOMAIN pc |-> 0]
    /\ raised' = "none"
    /\ X' = Undefined /\ y' = Undefined
    /\ X_train' = Undefined /\ X_test' = Undefined
    /\ y_train' = Undefined /\ y_test' = Undefined
    /\ UNCHANGED <<notebook, schedule, test_size, random_state, df, clsVars,
                   ttestVars, fitVars, printed>>

InitRerun ==
    InitWine({"notebook"}, 0..MaxRows, FeaturePatterns, TargetPatterns,
             TestSizes, RandomStates)

\* Two executions of the split from the same dataset, ratio and seed.
SpecRerun == InitRerun /\ [][SplitCell \/ Rerun]_vars

InitPanel ==
    \/ InitWine({"any_order", "interleaved"}, {PanelRows}, {<<"ramp", "alt">>},
                {"alt"}, {10}, {42})
    \/ InitDiabetes({"any_order", "interleaved"}, {PanelRows}, {"ramp"}, {"alt"})

\* Either notebook, the procedures of its panel run one at a time in any
\* order, or with their statements interleaved.
SpecPanel == InitPanel /\ [][Next]_vars

-----------------------------------------------------------------------------
(* Properties of the wine notebook *)

Wine == notebook = "wine"

\* the split cell has been executed: it completed, or it raised
SplitRan == Wine /\ (Done("split") \/ (raised # "none" /\ pc["split"] = 0))

ValidRatio == 0 < test_size /\ test_size < 100

Report == model_comparison

\* two report rows carry the same metric
SameMetric(a, b) == a.Accuracy.num * b.Accuracy.den = b.Accuracy.num * a.Accuracy.den

\* C1 (as claimed): the report is sorted by metric, highest first, and two
\* entries with the same metric keep the order they have in the panel.
C1_ReportSortedAndStable ==
    (Wine /\ Done("compare")) =>
        \A i, j \in DOMAIN Report.rows :
            i < j =>
                /\ Report.rows[i].Accuracy.num * Report.rows[j].Accuracy.den
                       >= Report.rows[j].Accuracy.num * Report.rows[i].Accuracy.den
                /\ SameMetric(Report.rows[i], Report.rows[j])
                       => Report.index[i] < Report.index[j]

\* C1 (amended): the report is sorted by metric, highest first, and holds the
\* panel's (name, metric) pairs, each once; the order of two entries with the
\* same metric is not fixed.
C1_ReportSortedDescending ==
    (Wine /\ Done("compare")) =>
        /\ \A i, j \in DOMAIN Report.rows :
               i < j =>
                   Report.rows[i].Accuracy.num * Report.rows[j].Accuracy.den
                       >= Report.rows[j].Accuracy.num * Report.rows[i].Accuracy.den
        /\ Len(Report.rows) = Len(Panel)
        /\ \A k \in DOMAIN Panel :
               \E i \in DOMAIN Report.rows :
                   /\ Report.index[i] = k - 1
                   /\ Report.rows[i].Model = Panel[k].name
                   /\ Report.rows[i].Accuracy = accuracy[Panel[k].var]

\* a report with two tied entries above a lower one and a tie below
C1_Witness ==
    /\ Wine /\ Done("compare")
    /\ SameMetric(Report.rows[1], Report.rows[2])
    /\ ~SameMetric(Report.rows[2], Report.rows[3])
    /\ ~SameMetric(Report.rows[3], Report.rows[4])
    /\ SameMetric(Report.rows[4], Report.rows[5])

\* the split's subsets are disjoint, cover df without repeating a row, and
\* keep each row's features with its own target
IsPartition ==
    /\ Range(y_train.index) \cap Range(y_test.index) = {}
    /\ Range(y_train.index) \cup Range(y_test.index) = Range(df.index)
    /\ Len(y_train.index) + Len(y_test.index) = Len(df.rows)
    /\ \A k \in DOMAIN y_train.index :
           y_train.values[k] = df.rows[y_train.index[k] + 1].target
    /\ \A k \in DOMAIN y_test.index :
           y_test.values[k] = df.rows[y_test.index[k] + 1].target
    /\ X_train.kind = "DataFrame" =>
           /\ X_train.index = y_train.index
           /\ \A k \in DOMAIN X_train.rows : \A c \in WineFeatures :
                  X_train.rows[k][c] = df.rows[y_train.index[k] + 1][c]
    /\ X_test.kind = "DataFrame" =>
           /\ X_test.index = y_test.index
           /\ \A k \in DOMAIN X_test.rows : \A c \in WineFeatures :
                  X_test.rows[k][c] = df.rows[y_test.index[k] + 1][c]

\* C2 (as claimed): for every dataset, ratio in (0,1) and seed, split returns
\* a training and an evaluation subset that partition the dataset, features
\* kept with their target.
C2_SplitAlwaysPartitions ==
    (SplitRan /\ ValidRatio) => (Done("split") /\ IsPartition)

\* C2 (amended): whenever the ratio in (0,1) leaves at least one training row
\* (n - ceil(ratio * n) >= 1), split returns such a partition; otherwise it
\* raises and returns nothing.
C2_SplitPartitions ==
    LET n == Len(df.rows)
        n_train == n - ((test_size * n + 99) \div 100)
    IN  /\ (SplitRan /\ ValidRatio /\ n_train >= 1) => Done("split")
        /\ (SplitRan /\ ValidRatio /\ n_train < 1) =>
               /\ raised = "ValueError"
               /\ X_train = Undefined /\ X_test = Undefined
               /\ y_train = Undefined /\ y_test = Undefined
        /\ (Wine /\ Done("split")) => IsPartition

\* a split with at least two rows on each side, still unscaled
C2_Witness ==
    /\ Wine /\ Done("split") /\ pc["scale"] = 0
    /\ Len(y_train.index) >= 2 /\ Len(y_test.index) >= 2

\* the training rows of df, by the labels y_train keeps
TrainSum(c) == SumOver(Range(y_train.index), [l \in Range(y_train.index) |-> df.rows[l + 1][c]])

\* C4: the scaler's parameters are those of the training rows alone: it is
\* unfitted until fit_transform(X_train) runs, is fitted once, on exactly the
\* training rows, before X_test is transformed, and X_test is centred on the
\* training mean.
C4_ScalerFitOnTrainingOnly ==
    Wine =>
        /\ (scaler # Undefined /\ scaler.fitted) <=> pc["scale"] >= 2
        /\ X_test # Undefined /\ X_test.kind = "ndarray" => pc["scale"] = 3
        /\ pc["scale"] >= 2 =>
               /\ scaler.n_samples_seen_ = Len(y_train.index)
               /\ \A c \in WineFeatures :
                      /\ scaler.mean_[c].num = TrainSum(c)
                      /\ scaler.mean_[c].den = Len(y_train.index)
        /\ pc["scale"] = 3 =>
               \A k \in DOMAIN X_test.rows : \A c \in WineFeatures :
                   /\ X_test.rows[k][c].den = Len(y_train.index)
                   /\ X_test.rows[k][c].num =
                          df.rows[y_test.index[k] + 1][c] * Len(y_train.index)
                              - TrainSum(c)

\* both subsets scaled, the evaluation rows having another mean than the
\* training rows
C4_Witness ==
    /\ Wine /\ pc["scale"] = 3
    /\ Len(y_test.index) >= 2
    /\ \E c \in WineFeatures : \E k \in DOMAIN X_test.rows : X_test.rows[k][c].num # 0

\* a classifier cell raised: the first cell of the panel that is not done
FitFailed(c) ==
    /\ Wine /\ raised # "none" /\ Done("scale")
    /\ c \in Classifiers /\ ~Done(c)
    /\ \A b \in MustPrecede(c) : Done(b)

Halted == raised # "none" \/ \A c \in DOMAIN pc : Done(c)

\* C6 (as claimed): when one procedure fails to fit, the run is not aborted:
\* it ends with every other procedure run and a report of exactly those.
C6_ReportDespiteFitFailure ==
    \A c \in Classifiers :
        (Halted /\ FitFailed(c)) =>
            /\ \A o \in Classifiers \ {c} : Done(o)
            /\ Report # Undefined
            /\ {Report.rows[i].Model : i \in DOMAIN Report.rows}
                   = {Panel[k].name : k \in {j \in DOMAIN Panel : Panel[j].var # c}}

\* C8: a ratio outside (0,1) makes split raise (ValueError), no partition is
\* made, and no later cell runs.
C8_InvalidRatioIsFatal ==
    (Wine /\ ~ValidRatio) =>
        /\ SplitRan => raised = "ValueError"
        /\ X # Undefined => SplitRan
        /\ X_train = Undefined /\ X_test = Undefined
        /\ y_train = Undefined /\ y_test = Undefined
        /\ scaler = Undefined
        /\ \A c \in Classifiers :
               clf[c] = Undefined /\ y_pred[c] = Undefined /\ accuracy[c] = Undefined
        /\ Report = Undefined
        /\ \A c \in DOMAIN pc : pc[c] = 0

\* split raised on the ratio 1.0 for a dataset with rows
C8_Witness ==
    /\ Wine /\ test_size = 100 /\ Len(df.rows) >= 2
    /\ raised = "ValueError" /\ X # Undefined

\* column c is constant over the training rows
ZeroVariance(c) ==
    \A k, l \in Range(y_train.index) : df.rows[k + 1][c] = df.rows[l + 1][c]

\* C9 (as claimed): fitting on a training subset with a zero-variance feature
\* fails instead of returning a transform.
C9_ZeroVarianceFitFails ==
    (Wine /\ pc["scale"] >= 2) => \A c \in WineFeatures : ~ZeroVariance(c)

\* C9 (amended): fitting on a training subset with a zero-variance feature does
\* not fail: it returns a transform whose scale for that feature is 1, so that
\* apply never divides by a zero standard deviation and maps the feature's
\* training values to 0.
C9_ZeroVarianceScalesByOne ==
    Wine =>
        /\ (raised # "none" /\ Done("split")) => Done("scale")
        /\ pc["scale"] >= 2 =>
               \A c \in WineFeatures :
                   /\ scaler.scale_sq_[c].num # 0 /\ scaler.scale_sq_[c].den # 0
                   /\ ZeroVariance(c) =>
                          /\ scaler.scale_sq_[c].num = scaler.scale_sq_[c].den
                          /\ \A k \in DOMAIN X_train.rows :
                                 /\ X_train.rows[k][c].num = 0
                                 /\ X_train.rows[k][c].scale_sq = scaler.scale_sq_[c]
        /\ pc["scale"] = 3 =>
               \A k \in DOMAIN X_test.rows : \A c \in WineFeatures :
                   X_test.rows[k][c].scale_sq.num # 0

\* scaled subsets with one constant and one varying training feature
C9_Witness ==
    /\ Wine /\ pc["scale"] = 3 /\ Len(y_train.index) >= 2
    /\ \E c \in WineFeatures : ZeroVariance(c)
    /\ \E c \in WineFeatures : ~ZeroVariance(c)

\* the evaluation rows whose label predicted by classifier c is the row's
\* own target in df
CorrectRows(c) ==
    {i \in DOMAIN y_test.index :
        y_pred[c].values[i] = df.rows[y_test.index[i] + 1].target}

\* C12: the accuracy a classifier cell reports is (evaluation rows predicted
\* with their true label) / (evaluation rows), over a non-empty evaluation
\* subset, and so lies in [0,1].
C12_AccuracyIsCorrectOverTotal ==
    \A c \in Classifiers :
        (Wine /\ accuracy[c] # Undefined) =>
            /\ Len(y_test.index) >= 1
            /\ Len(y_pred[c].values) = Len(y_test.index)
            /\ accuracy[c].den > 0
            /\ accuracy[c].num * Len(y_test.index)
                   = Cardinality(CorrectRows(c)) * accuracy[c].den
            /\ 0 <= accuracy[c].num /\ accuracy[c].num <= accuracy[c].den

\* three classifiers scored on two evaluation rows: one right on one row, one
\* on both, one on none
C12_Witness ==
    /\ Wine /\ Done("rf") /\ Len(y_test.index) = 2
    /\ accuracy["log_reg"] = Float(1, 2)
    /\ accuracy["dtree"] = Float(2, 2)
    /\ accuracy["rf"] = Float(0, 2)

\* the row of the report that carries the entry of classifier c
ReportRows(c) ==
    {i \in DOMAIN Report.rows :
        \E k \in DOMAIN Panel : Panel[k].var = c /\ Report.rows[i].Model = Panel[k].name}

C14_ReportIsPermutationOfPanel ==
    (Wine /\ Report # Undefined) =>
        /\ DOMAIN Report.rows = DOMAIN Panel
        /\ DOMAIN Report.index = DOMAIN Panel
        /\ {Report.index[i] + 1 : i \in DOMAIN Report.index} = DOMAIN Panel
        /\ \A i \in DOMAIN Report.rows :
               LET k == Report.index[i] + 1
               IN  /\ DOMAIN Report.rows[i] = {"Model", "Accuracy"}
                   /\ Report.rows[i].Model = Panel[k].name
                   /\ Report.rows[i].Accuracy = accuracy[Panel[k].var]
        /\ \A i, j \in DOMAIN Report.rows :
               Report.rows[i].Model = Report.rows[j].Model => i = j

\* a report whose rows are not in panel order: the first panel entry last,
\* the last one first, with different accuracies
C14_Witness ==
    /\ Wine /\ Done("compare")
    /\ Report.rows[1].Model = "KNN"
    /\ Report.rows[5].Model = "Logistic Regression"
    /\ Report.rows[1].Accuracy # Report.rows[5].Accuracy
    /\ Len(y_test.index) = 2

-----------------------------------------------------------------------------
(* Properties of the diabetes notebook *)

\* p < 0.05, on the fraction itself
Below005(p) == p.kind = "float" /\ p.num * 100 < 5 * p.den

\* C5: each of the three t-test cells prints "reject" exactly when the p-value
\* its test returned is below 0.05, and "fail to reject" otherwise, also at
\* exactly 0.05.
C5_VerdictIffBelowAlpha ==
    \A t \in TTests :
        printed[t] # Undefined =>
            /\ printed[t].p_value = ttest_result[t].pvalue
            /\ printed[t].verdict \in {"reject", "fail to reject"}
            /\ printed[t].verdict = "reject" <=> Below005(ttest_result[t].pvalue)

\* the three verdicts printed, the paired test's at exactly 0.05
C5_Witness ==
    /\ \A t \in TTests : printed[t] # Undefined
    /\ printed["one_sample"].verdict = "reject"
    /\ printed["two_sample"].p_value = NaN
    /\ printed["paired"].p_value = Float(50, 1000)
    /\ printed["paired"].verdict = "fail to reject"

\* the cells of the diabetes notebook that print no verdict
NoVerdictCells == {"ci", "anova", "regression"}

\* C11 (as claimed): each of the six statistical procedures gives, besides its
\* statistic and p-value or interval, a significance verdict.
C11_EveryProcedureGivesVerdict ==
    \A c \in Range(DiabetesCells) \cap DOMAIN pc :
        printed[c] # Undefined =>
            /\ "verdict" \in DOMAIN printed[c]
            /\ printed[c].verdict \in {"reject", "fail to reject"}

\* C11 (amended): the three t-tests give, besides statistic and p-value, a
\* verdict obtained by comparing the p-value with 0.05; the confidence
\* interval, the ANOVA and the regression give their interval, table and
\* summary only, and no verdict.
C11_OnlyTTestsGiveVerdict ==
    /\ \A t \in TTests \cap DOMAIN pc :
           printed[t] # Undefined =>
               /\ DOMAIN printed[t] = {"kind", "t_stat", "p_value", "verdict"}
               /\ printed[t].verdict =
                      (IF Lt(printed[t].p_value, Float(5, 100))
                       THEN "reject" ELSE "fail to reject")
    /\ \A c \in NoVerdictCells \cap DOMAIN pc :
           printed[c] # Undefined =>
               /\ "verdict" \notin DOMAIN printed[c]
               /\ Done(c)
    /\ (notebook = "diabetes" /\ printed["ci"] # Undefined) =>
           printed["ci"].ci = ci
    /\ (notebook = "diabetes" /\ printed["anova"] # Undefined) =>
           printed["anova"].table = anova_table
    /\ (notebook = "diabetes" /\ printed["regression"] # Undefined) =>
           printed["regression"].summary.exog = {"const", "bmi"}

\* all six procedures have printed, the t-tests with both verdicts
C11_Witness ==
    /\ notebook = "diabetes"
    /\ \A c \in Range(DiabetesCells) : Done(c) /\ printed[c] # Undefined
    /\ printed["one_sample"].verdict = "fail to reject"
    /\ printed["two_sample"].verdict = "reject"

\* C10 (as claimed): after loading, no step changes the dataset.
C10_DatasetNeverChanges == [][df' = df]_vars

\* C10 (amended): after loading, no step changes the dataset's rows or the
\* values of its loaded columns; the only change is the column bmi_quartile
\* that the ANOVA cell of the diabetes notebook adds to it.
C10_OnlyQuartileColumnAdded ==
    [][/\ df'.index = df.index
       /\ df.columns \subseteq df'.columns
       /\ df'.columns \ df.columns \subseteq {"bmi_quartile"}
       /\ \A i \in DOMAIN df.rows : \A c \in df.columns :
              df'.rows[i][c] = df.rows[i][c]
       /\ (df' # df) => (notebook = "diabetes" /\ pc["anova"] = 0 /\ pc'["anova"] = 1)
      ]_vars

\* the diabetes notebook ran to its end on the frame with the added column
C10_Witness ==
    /\ notebook = "diabetes" /\ Done("regression")
    /\ df.columns = DiabetesColumns \cup {"bmi_quartile"}
    /\ Len(df.rows) >= 4

-----------------------------------------------------------------------------
(* Properties of repeated and reordered executions *)

OwnResults ==
    /\ \A t \in TTests \cap DOMAIN pc :
           printed[t] # Undefined =>
               /\ printed[t].p_value = ttest_result[t].pvalue
               /\ printed[t].t_stat = ttest_result[t].statistic
               /\ printed[t].verdict = "reject" <=> Below005(ttest_result[t].pvalue)
    /\ printed["anova"] # Undefined =>
           printed["anova"].table.model.exog = {"C(bmi_quartile)"}
    /\ printed["regression"] # Undefined =>
           printed["regression"].summary.exog = {"const", "bmi"}
    /\ \A c \in Classifiers :
           /\ y_pred[c] # Undefined =>
                  clf[c] # Undefined /\ y_pred[c].values = clf[c].decision
           /\ accuracy[c] # Undefined =>
                  /\ accuracy[c].den = Len(y_test.values)
                  /\ accuracy[c].num =
                         Cardinality({i \in DOMAIN y_test.values :
                                         clf[c].decision[i] = y_test.values[i]})

\* C7 (as claimed): the procedures of a panel share no mutable state: in any
\* order, and interleaved, each gets the result it gets alone.
C7_AnyScheduleSameResult == OwnResults

\* C7 (amended): run one whole procedure at a time, in any order, each
\* procedure gets the result it gets alone, and the classifiers do so also
\* with their statements interleaved, since each writes only names of its own.
\* The statistical procedures do share mutable state: a name written by one
\* and read by another is one of t_stat, p_value, model and df, so their
\* statements cannot be interleaved.
C7_OneAtATimeSameResult ==
    /\ (schedule # "interleaved" \/ Wine) => OwnResults
    /\ \A p, q \in PanelCells(notebook) :
           p # q => Writes(p) \cap Reads(q) \subseteq
                        (IF Wine THEN {} ELSE {"t_stat", "p_value", "model", "df"})

\* the paired test has printed its verdict and the regression its summary
\* while the one-sample test has not started
C7_Witness ==
    /\ notebook = "diabetes" /\ schedule = "any_order"
    /\ pc["one_sample"] = 0 /\ Done("paired") /\ Done("regression")
    /\ printed["paired"].verdict = "reject"

====
